---------------------------- MODULE Spec2Model ----------------------------
(***************************************************************************)
(* A model of the two demonstration scripts of the repository:             *)
(*   src/autogen/scenario_tester.py  (ScenarioWorkflow and its main)       *)
(*   src/crewai/crewai_demo.py       (the CrewAI main)                     *)
(* One behaviour is one process running one of the two scripts.  The       *)
(* environment supplies the command line, the interactive input, the       *)
(* outcome of the configuration check and the outcome of every backend     *)
(* call.                                                                   *)
(***************************************************************************)
EXTENDS Integers, Sequences, FiniteSets, TLC

VARIABLES
    script,         \* which script this process runs
    argv,           \* sys.argv[1:], each argument a string of characters
    stdin,          \* the lines input() can still read; <<>> is end of file
    configValid,    \* what the configuration check will answer
    diskOk,         \* whether open(output_file, 'w') will succeed
    useGroq,        \* Config.USE_GROQ
    deterministic,  \* whether the backend answers equal messages equally
    pc,             \* position of the single thread of control
    phase,          \* which phase function control is in (0: none)
    scenario_type,  \* main's local scenario_type
    workflow,       \* main's local workflow: bound once __init__ returned
    outputs,        \* self.outputs: a dict, kept in insertion order
    inflight,       \* the backend call issued and not yet answered
    response,       \* the response object of the last answered call
    calls,          \* every backend call issued so far, in order
    replies,        \* what the backend answered to each call, in order
    exception,      \* the exception being handled or that ended the process
    stdout,         \* everything printed so far
    stderr,         \* tracebacks printed so far
    file,           \* the report file: <<>> while it does not exist
    environ,        \* the names the script has set in os.environ
    agents,         \* the agents created by the CrewAI main
    crew,           \* the tasks of the Crew, in the order given to it
    kickoffs,       \* how many times crew.kickoff was called
    task,           \* the crew task being executed (0: none)
    result,         \* main's local result: <<>> until kickoff returned
    exit_status,    \* <<>> while the process runs, <<n>> once it has ended
    memo,           \* what a deterministic backend answered to which messages
    prior,          \* self.outputs at the end of the previous run of the script
    runs            \* how many times the script was started

\* what the environment fixes when the process starts
env == <<script, argv, stdin, configValid, diskOk, useGroq, deterministic>>

\* what outlives one run of the script
twiceState == <<memo, prior, runs>>

\* the state only the CrewAI script uses
crewState == <<environ, agents, crew, kickoffs, task, result>>

\* the state only the scenario tester uses
testerState == <<phase, scenario_type, workflow, outputs, response>>

vars == <<script, argv, stdin, configValid, diskOk, useGroq, deterministic, pc, phase,
          scenario_type, workflow, outputs, inflight, response, calls, replies,
          exception, stdout, stderr, file, environ, agents, crew, kickoffs,
          task, result, exit_status, memo, prior, runs>>

---------------------------------------------------------------------------
(* Bounds of the model.                                                    *)

\* at most this many blanks on either side of the word typed at the prompt
MaxPad == 1

---------------------------------------------------------------------------
(* Values.                                                                 *)

\* Python's None, as opposed to the str "None"
None == "<None>"

\* the words a user may give as scenario; "bogus" and "" are not scenarios
Words == {"conference", "software", "bogus", ""}

RECURSIVE Blanks(_)
Blanks(n) == IF n = 0 THEN <<>> ELSE <<" ">> \o Blanks(n - 1)

\* a string is a sequence of characters; a word counts as one character
\* run that holds no blank
Str(w) == IF w = "" THEN <<>> ELSE <<w>>

\* the lines a user may type: a word with blanks around it
Lines == { Blanks(l) \o Str(w) \o Blanks(r) : l \in 0..MaxPad, r \in 0..MaxPad, w \in Words }

\* the texts a backend may return as message content
Texts == {"OUT:research", "OUT:analysis", "OUT:blueprint", "OUT:review"}

\* the exceptions the OpenAI client raises when a call fails
BackendErrors == {"APIConnectionError", "APIStatusError"}

---------------------------------------------------------------------------
(* Python semantics the scripts rely on.                                   *)

RECURSIVE lstrip(_)
lstrip(s) == IF s # <<>> /\ Head(s) = " " THEN lstrip(Tail(s)) ELSE s

RECURSIVE rstrip(_)
rstrip(s) == IF s # <<>> /\ s[Len(s)] = " " THEN rstrip(SubSeq(s, 1, Len(s) - 1)) ELSE s

\* str.strip()
strip(s) == rstrip(lstrip(s))

\* an f-string field, print(x): str(x)
Format(v) == IF v = None THEN "None" ELSE v

\* dict: a sequence of <<key, value>> pairs in insertion order
DictKeys(d) == [i \in 1..Len(d) |-> d[i][1]]

HasKey(d, k) == \E i \in 1..Len(d) : d[i][1] = k

DictGet(d, k) == d[CHOOSE i \in 1..Len(d) : d[i][1] = k][2]

\* DictSet as it would be if the dict were rebound instead of updated
DictSet_rebind(d, k, v) == <<<<k, v>>>>

\* d[k] = v keeps the position of a key already present
DictSet(d, k, v) ==
    IF HasKey(d, k)
    THEN [i \in 1..Len(d) |-> IF d[i][1] = k THEN <<k, v>> ELSE d[i]]
    ELSE Append(d, <<k, v>>)

\* IsException as it would be under a bare `except:`
IsException_bare(type) == TRUE

\* IsException as it would be under `except KeyError`
IsException_narrow(type) == type = "KeyError"

\* `except Exception` catches neither SystemExit nor KeyboardInterrupt
IsException(type) == type \notin {"SystemExit", "KeyboardInterrupt"}

\* status of a process ended by an exception no handler caught:
\* SystemExit carries its code, any other exception gives 1
ExitCode(exc) == IF exc.type = "SystemExit" THEN exc.code ELSE 1

NoException == [type |-> "none", frames |-> <<>>, code |-> 0]

Exc(type, frames) == [type |-> type, frames |-> frames, code |-> 1]

\* raise exc at a place that is (inTry) or is not inside main's try block
Raise(exc, inTry) ==
    /\ exception' = exc
    /\ IF inTry /\ IsException(exc.type)
       THEN /\ pc' = "except"
            /\ UNCHANGED <<stderr, exit_status>>
       ELSE /\ pc' = "exited"
            /\ exit_status' = <<ExitCode(exc)>>
            /\ stderr' = IF exc.type = "SystemExit" THEN stderr
                         ELSE Append(stderr, <<exc.type>> \o exc.frames)


---------------------------------------------------------------------------
(* src/autogen/scenario_tester.py                                          *)

\* valid_scenarios as it would be with an entry self.scenarios lacks
valid_scenarios_extra == {<<"conference">>, <<"marketing">>, <<"research_paper">>,
                          <<"software">>, <<"bogus">>}

\* main's valid_scenarios
valid_scenarios == {<<"conference">>, <<"marketing">>, <<"research_paper">>, <<"software">>}

\* the keys of self.scenarios
scenarios == {<<"conference">>, <<"marketing">>, <<"research_paper">>, <<"software">>}

\* phases as it would be if run() called phase_analysis twice
phases_repeat == <<"research", "analysis", "analysis", "blueprint", "review">>

\* the phase functions in the order run() calls them, named by what follows
\* "phase_" in their names
phases == <<"research", "analysis", "blueprint", "review">>

\* the phase names print_summary iterates over
summary_phases == <<"research", "analysis", "blueprint", "review">>

\* output_key as it would be if phase_review assigned self.outputs["blueprint"]
output_key_review_as_blueprint(fn) ==
    CASE fn = "research"  -> "research"
      [] fn = "analysis"  -> "analysis"
      [] fn = "blueprint" -> "blueprint"
      [] fn = "review"    -> "blueprint"

\* output_key as it would be with the keys of analysis and blueprint exchanged
output_key_swapped(fn) ==
    CASE fn = "research"  -> "research"
      [] fn = "analysis"  -> "blueprint"
      [] fn = "blueprint" -> "analysis"
      [] fn = "review"    -> "review"

\* the key of self.outputs the phase function fn assigns
output_key(fn) ==
    CASE fn = "research"  -> "research"
      [] fn = "analysis"  -> "analysis"
      [] fn = "blueprint" -> "blueprint"
      [] fn = "review"    -> "review"

\* user_template as it would be if phase_blueprint read the review
user_template_forward(fn, st) ==
    CASE fn = "research"  -> << <<"text", "user_messages">> \o st >>
      [] fn = "analysis"  -> << <<"text", "Research findings:">>,
                                <<"outputs", "research">>,
                                <<"text", "Provide your analysis.">> >>
      [] fn = "blueprint" -> << <<"text", "Analysis:">>,
                                <<"outputs", "review">>,
                                <<"text", "Create your design/blueprint.">> >>
      [] fn = "review"    -> << <<"text", "Blueprint:">>,
                                <<"outputs", "blueprint">>,
                                <<"text", "Provide your review.">> >>

\* user_template as it would be if phase_blueprint were also given the research
user_template_cumulative(fn, st) ==
    CASE fn = "research"  -> << <<"text", "user_messages">> \o st >>
      [] fn = "analysis"  -> << <<"text", "Research findings:">>,
                                <<"outputs", "research">>,
                                <<"text", "Provide your analysis.">> >>
      [] fn = "blueprint" -> << <<"text", "Research findings:">>,
                                <<"outputs", "research">>,
                                <<"text", "Analysis:">>,
                                <<"outputs", "analysis">>,
                                <<"text", "Create your design/blueprint.">> >>
      [] fn = "review"    -> << <<"text", "Blueprint:">>,
                                <<"outputs", "blueprint">>,
                                <<"text", "Provide your review.">> >>

\* the user message of the phase function fn for the scenario st, as written
\* in the source: literal text and fields looked up in self.outputs
user_template(fn, st) ==
    CASE fn = "research"  -> << <<"text", "user_messages">> \o st >>
      [] fn = "analysis"  -> << <<"text", "Research findings:">>,
                                <<"outputs", "research">>,
                                <<"text", "Provide your analysis.">> >>
      [] fn = "blueprint" -> << <<"text", "Analysis:">>,
                                <<"outputs", "analysis">>,
                                <<"text", "Create your design/blueprint.">> >>
      [] fn = "review"    -> << <<"text", "Blueprint:">>,
                                <<"outputs", "blueprint">>,
                                <<"text", "Provide your review.">> >>

\* the keys of self.outputs a message template looks up
input_keys(tpl) == {tpl[i][2] : i \in {j \in 1..Len(tpl) : tpl[j][1] = "outputs"}}

\* the message a template evaluates to over the outputs outs
render(tpl, outs) ==
    [i \in 1..Len(tpl) |->
        IF tpl[i][1] = "outputs"
        THEN <<"outputs", tpl[i][2], Format(DictGet(outs, tpl[i][2]))>>
        ELSE tpl[i]]

\* request as it would be if the user message carried the start time
request_stamped(fn, st, outs) ==
    [phase  |-> fn,
     system |-> <<"prompts", fn>> \o st,
     user   |-> Append(render(user_template(fn, st), outs),
                       <<"text", IF runs = 1 THEN "Start Time: first" ELSE "Start Time: second">>),
     reads  |-> input_keys(user_template(fn, st))]

\* the request the phase function fn calls client.chat.completions.create with
request(fn, st, outs) ==
    [phase  |-> fn,
     system |-> <<"prompts", fn>> \o st,
     user   |-> render(user_template(fn, st), outs),
     reads  |-> input_keys(user_template(fn, st))]

\* the name of the phase function fn as a traceback shows it
phase_function(fn) ==
    CASE fn = "research"  -> "phase_research"
      [] fn = "analysis"  -> "phase_analysis"
      [] fn = "blueprint" -> "phase_blueprint"
      [] fn = "review"    -> "phase_review"

\* the frames of the traceback of an exception raised in the phase function fn
phase_frames(fn) == <<"main", "run", phase_function(fn)>>

\* main, lines 319-322: the scenario comes from the command line or the prompt
read_scenario ==
    /\ script = "scenario_tester"
    /\ pc = "start"
    /\ stdout' = Append(stdout, <<"AUTOGEN MULTI-SCENARIO TESTER">>)
    /\ IF Len(argv) > 0
       THEN /\ scenario_type' = argv[1]
            /\ pc' = "validate"
            /\ UNCHANGED <<exception, stderr, exit_status>>
       ELSE IF stdin = <<>>
            THEN /\ Raise(Exc("EOFError", <<"main">>), FALSE)
                 /\ UNCHANGED scenario_type
            ELSE /\ scenario_type' = strip(Head(stdin))
                 /\ pc' = "validate"
                 /\ UNCHANGED <<exception, stderr, exit_status>>
    /\ UNCHANGED <<env, twiceState, crewState, phase, workflow, outputs, inflight, response, calls,
                   replies, file>>

\* main, lines 324-327
validate_scenario ==
    /\ script = "scenario_tester"
    /\ pc = "validate"
    /\ IF scenario_type \notin valid_scenarios
       THEN /\ stdout' = Append(stdout, <<"Invalid scenario">>)
            /\ Raise([type |-> "SystemExit", frames |-> <<"main">>, code |-> 1], FALSE)
       ELSE /\ pc' = "construct"
            /\ UNCHANGED <<stdout, exception, stderr, exit_status>>
    /\ UNCHANGED <<env, twiceState, crewState, phase, scenario_type, workflow, outputs, inflight,
                   response, calls, replies, file>>

\* Config.validate_setup()
validate_setup == configValid

\* ScenarioWorkflow.__init__, called inside main's try block
ScenarioWorkflow_init ==
    /\ script = "scenario_tester"
    /\ pc = "construct"
    /\ IF ~validate_setup
       THEN /\ stdout' = Append(stdout, <<"ERROR: Configuration validation failed!">>)
            /\ Raise([type |-> "SystemExit", frames |-> <<"main", "__init__">>, code |-> 1], TRUE)
            /\ UNCHANGED <<workflow, outputs>>
       ELSE /\ outputs' = <<>>
            /\ workflow' = "bound"
            /\ pc' = "run"
            /\ UNCHANGED <<stdout, exception, stderr, exit_status>>
    /\ UNCHANGED <<env, twiceState, crewState, phase, scenario_type, inflight, response, calls,
                   replies, file>>

\* ScenarioWorkflow.run, lines 87-94: look the scenario up, print the header
run ==
    /\ script = "scenario_tester"
    /\ pc = "run"
    /\ IF scenario_type \notin scenarios
       THEN /\ Raise(Exc("KeyError", <<"main", "run">>), TRUE)
            /\ UNCHANGED <<stdout, phase>>
       ELSE /\ stdout' = Append(stdout, <<"AUTOGEN SCENARIO TEST">> \o scenario_type)
            /\ pc' = "phase_enter"
            /\ phase' = 1
            /\ UNCHANGED <<exception, stderr, exit_status>>
    /\ UNCHANGED <<env, twiceState, crewState, scenario_type, workflow, outputs, inflight,
                   response, calls, replies, file>>

\* a phase function up to its backend call: the banner is printed
phase_enter ==
    /\ script = "scenario_tester"
    /\ pc = "phase_enter"
    /\ stdout' = Append(stdout, <<"PHASE", phases[phase]>>)
    /\ pc' = "phase_call"
    /\ UNCHANGED <<env, twiceState, crewState, phase, scenario_type, workflow, outputs, inflight,
                   response, calls, replies, exception, stderr, file, exit_status>>

\* phase_call as it would be if the call were issued a second time without
\* waiting for the first
phase_call_twice ==
    /\ script = "scenario_tester"
    /\ pc = "phase_call"
    /\ inflight' = inflight \o <<request(phases[phase], scenario_type, outputs),
                                  request(phases[phase], scenario_type, outputs)>>
    /\ calls' = calls \o <<request(phases[phase], scenario_type, outputs),
                            request(phases[phase], scenario_type, outputs)>>
    /\ pc' = "phase_wait"
    /\ UNCHANGED <<env, twiceState, crewState, phase, scenario_type, workflow, outputs, response,
                   replies, stdout, file, exception, stderr, exit_status>>

\* a phase function at its backend call: the messages are built from
\* self.outputs and client.chat.completions.create is entered
phase_call ==
    /\ script = "scenario_tester"
    /\ pc = "phase_call"
    /\ IF \E key \in input_keys(user_template(phases[phase], scenario_type)) :
             ~HasKey(outputs, key)
       THEN /\ Raise(Exc("KeyError", phase_frames(phases[phase])), TRUE)
            /\ UNCHANGED <<inflight, calls>>
       ELSE /\ inflight' = Append(inflight, request(phases[phase], scenario_type, outputs))
            /\ calls' = Append(calls, request(phases[phase], scenario_type, outputs))
            /\ pc' = "phase_wait"
            /\ UNCHANGED <<exception, stderr, exit_status>>
    /\ UNCHANGED <<env, twiceState, crewState, phase, scenario_type, workflow, outputs, response,
                   replies, stdout, file>>

\* the message contents a response may carry: a text, or None
Contents == Texts \cup {None}

\* what a backend sees of a request: its messages
Messages(req) == <<req.system, req.user>>

\* a deterministic backend answers a request as it answered the same
\* messages before
Consistent(req, answer) ==
    deterministic => \A m \in memo : m[1] = Messages(req) => m[2] = answer

Remember(req, answer) ==
    IF deterministic THEN memo \cup {<<Messages(req), answer>>} ELSE memo

\* the backend answers the call in flight; choices may be empty
backend_return ==
    /\ script = "scenario_tester"
    /\ pc = "phase_wait"
    /\ inflight # <<>>
    /\ \E choices \in {<<>>} \cup {<<c>> : c \in Contents} :
          /\ Consistent(Head(inflight), <<"return">> \o choices)
          /\ memo' = Remember(Head(inflight), <<"return">> \o choices)
          /\ response' = <<[choices |-> choices]>>
          /\ replies' = Append(replies, <<"return", Head(inflight).phase>> \o choices)
    /\ inflight' = Tail(inflight)
    /\ pc' = "phase_store"
    /\ UNCHANGED <<env, prior, runs, crewState, phase, scenario_type, workflow, outputs, calls,
                   exception, stdout, stderr, file, exit_status>>

\* backend_raise as it would be if the phase function caught the failure and
\* went on with no content
backend_raise_swallowed ==
    /\ script = "scenario_tester"
    /\ pc = "phase_wait"
    /\ inflight # <<>>
    /\ \E err \in BackendErrors :
          replies' = Append(replies, <<"raise", Head(inflight).phase, err>>)
    /\ response' = <<[choices |-> <<None>>]>>
    /\ inflight' = Tail(inflight)
    /\ pc' = "phase_store"
    /\ UNCHANGED <<env, twiceState, crewState, phase, scenario_type, workflow, outputs,
                   calls, stdout, file, exception, stderr, exit_status>>

\* backend_raise as it would be if the phase function retried a failed call
backend_raise_retry ==
    /\ script = "scenario_tester"
    /\ pc = "phase_wait"
    /\ inflight # <<>>
    /\ \E err \in BackendErrors :
          replies' = Append(replies, <<"raise", Head(inflight).phase, err>>)
    /\ inflight' = Tail(inflight)
    /\ pc' = "phase_call"
    /\ UNCHANGED <<env, twiceState, crewState, phase, scenario_type, workflow, outputs,
                   response, calls, stdout, file, exception, stderr, exit_status>>

\* the call in flight fails: create raises inside the phase function
backend_raise ==
    /\ script = "scenario_tester"
    /\ pc = "phase_wait"
    /\ inflight # <<>>
    /\ \E err \in BackendErrors :
          /\ Consistent(Head(inflight), <<"raise", err>>)
          /\ memo' = Remember(Head(inflight), <<"raise", err>>)
          /\ replies' = Append(replies, <<"raise", Head(inflight).phase, err>>)
          /\ Raise(Exc(err, phase_frames(phases[phase]) \o <<"create">>), TRUE)
    /\ inflight' = Tail(inflight)
    /\ UNCHANGED <<env, prior, runs, crewState, phase, scenario_type, workflow, outputs, response,
                   calls, stdout, file>>

\* a phase function after its backend call:
\* self.outputs[key] = response.choices[0].message.content, then the prints;
\* control returns to run(), which calls the next phase or print_summary
phase_store ==
    /\ script = "scenario_tester"
    /\ pc = "phase_store"
    /\ IF Head(response).choices = <<>>
       THEN /\ Raise(Exc("IndexError", phase_frames(phases[phase])), TRUE)
            /\ UNCHANGED <<outputs, stdout, phase>>
       ELSE /\ outputs' = DictSet(outputs, output_key(phases[phase]), Head(response).choices[1])
            /\ stdout' = Append(stdout, <<"Output", output_key(phases[phase]),
                                          Format(DictGet(outputs', output_key(phases[phase])))>>)
            /\ IF phase < Len(phases)
               THEN pc' = "phase_enter" /\ phase' = phase + 1
               ELSE pc' = "print_summary" /\ phase' = 0
            /\ UNCHANGED <<exception, stderr, exit_status>>
    /\ UNCHANGED <<env, twiceState, crewState, scenario_type, workflow, inflight, response,
                   calls, replies, file>>

\* print_summary, lines 268-295: the summary is printed, the report file is
\* opened and its header written
print_summary_open ==
    /\ script = "scenario_tester"
    /\ pc = "print_summary"
    /\ stdout' = Append(stdout, <<"WORKFLOW SUMMARY">>)
    /\ IF ~diskOk
       THEN /\ Raise(Exc("OSError", <<"main", "run", "print_summary">>), TRUE)
            /\ UNCHANGED file
       ELSE /\ file' = << <<"AUTOGEN SCENARIO">> \o scenario_type >>
            /\ pc' = "print_summary_write"
            /\ UNCHANGED <<exception, stderr, exit_status>>
    /\ UNCHANGED <<env, twiceState, crewState, phase, scenario_type, workflow, outputs, inflight,
                   response, calls, replies>>

\* the loop of print_summary over the phase names from the i-th on: what it
\* leaves in the file f, and the exception that stopped it ("none": finished)
RECURSIVE write_sections(_, _, _)
write_sections(f, outs, i) ==
    IF i > Len(summary_phases) THEN [file |-> f, err |-> "none"]
    ELSE LET name == summary_phases[i]
             g == Append(f, <<"PHASE", name>>)
         IN  IF ~HasKey(outs, name) THEN [file |-> g, err |-> "KeyError"]
             ELSE IF DictGet(outs, name) = None THEN [file |-> g, err |-> "TypeError"]
             ELSE write_sections(Append(g, <<"TEXT", DictGet(outs, name)>>), outs, i + 1)

\* print_summary, lines 297-305: one section per phase, then the closing prints
print_summary_write ==
    /\ script = "scenario_tester"
    /\ pc = "print_summary_write"
    /\ LET w == write_sections(file, outputs, 1)
       IN  /\ file' = w.file
           /\ IF w.err # "none"
              THEN /\ Raise(Exc(w.err, <<"main", "run", "print_summary">>), TRUE)
                   /\ UNCHANGED stdout
              ELSE /\ stdout' = Append(stdout, <<"Results saved">>)
                   /\ pc' = "success"
                   /\ UNCHANGED <<exception, stderr, exit_status>>
    /\ UNCHANGED <<env, twiceState, crewState, phase, scenario_type, workflow, outputs, inflight,
                   response, calls, replies>>

\* main, line 332, after run() returned; main returns and the process ends
report_success ==
    /\ script = "scenario_tester"
    /\ pc = "success"
    /\ stdout' = Append(stdout, <<"Scenario completed successfully!">>)
    /\ pc' = "exited"
    /\ exit_status' = <<0>>
    /\ UNCHANGED <<env, twiceState, crewState, phase, scenario_type, workflow, outputs, inflight,
                   response, calls, replies, exception, stderr, file>>

\* except_handler as it would be if the handler dropped the workflow
except_handler_discard ==
    /\ script = "scenario_tester"
    /\ pc = "except"
    /\ stdout' = Append(stdout, <<"Error during workflow execution", exception.type>>)
    /\ stderr' = Append(stderr, <<exception.type>> \o exception.frames)
    /\ workflow' = "unbound"
    /\ outputs' = <<>>
    /\ pc' = "exited"
    /\ exit_status' = <<0>>
    /\ UNCHANGED <<env, twiceState, crewState, phase, scenario_type, inflight,
                   response, calls, replies, exception, file>>

\* except_handler as it would be if the success print followed the try block
except_handler_then_success ==
    /\ script = "scenario_tester"
    /\ pc = "except"
    /\ stdout' = stdout \o << <<"Error during workflow execution", exception.type>>,
                               <<"Scenario completed successfully!">> >>
    /\ stderr' = Append(stderr, <<exception.type>> \o exception.frames)
    /\ pc' = "exited"
    /\ exit_status' = <<0>>
    /\ UNCHANGED <<env, twiceState, crewState, phase, scenario_type, workflow, outputs, inflight,
                   response, calls, replies, exception, file>>

\* main, lines 333-336: the handler prints the error and the traceback;
\* main returns and the process ends
except_handler ==
    /\ script = "scenario_tester"
    /\ pc = "except"
    /\ stdout' = Append(stdout, <<"Error during workflow execution", exception.type>>)
    /\ stderr' = Append(stderr, <<exception.type>> \o exception.frames)
    /\ pc' = "exited"
    /\ exit_status' = <<0>>
    /\ UNCHANGED <<env, twiceState, crewState, phase, scenario_type, workflow, outputs, inflight,
                   response, calls, replies, exception, file>>

---------------------------------------------------------------------------
(* src/crewai/crewai_demo.py                                               *)

\* the agents in the order main creates them and gives them to the Crew
crew_agents == <<"startup_scout", "market_analyst", "product_strategist", "feature_analyst">>

\* crew_tasks as it would be with the pitch listed before the analysis
crew_tasks_swapped == <<"startup_discovery_task", "product_pitch_task",
                        "competitive_analysis_task", "feature_analysis_task">>

\* the tasks in the order main gives them to the Crew
crew_tasks == <<"startup_discovery_task", "competitive_analysis_task",
                "product_pitch_task", "feature_analysis_task">>

\* shared_config.validate_config()
validate_config == configValid

\* main, lines 330-334: the configuration is validated before anything else
crew_validate ==
    /\ script = "crewai_demo"
    /\ pc = "start"
    /\ IF ~validate_config
       THEN /\ stdout' = Append(Append(stdout, <<"CrewAI Multi-Agent Startup Analysis System">>),
                                <<"Configuration validation failed">>)
            /\ Raise([type |-> "SystemExit", frames |-> <<"main">>, code |-> 1], FALSE)
       ELSE /\ stdout' = Append(stdout, <<"CrewAI Multi-Agent Startup Analysis System">>)
            /\ pc' = "set_environ"
            /\ UNCHANGED <<exception, stderr, exit_status>>
    /\ UNCHANGED <<env, twiceState, crewState, testerState, inflight, calls, replies, file>>

\* crew_set_environ as it would be without the test of Config.USE_GROQ
crew_set_environ_always ==
    /\ script = "crewai_demo"
    /\ pc = "set_environ"
    /\ environ' = environ \cup {"OPENAI_API_KEY", "OPENAI_API_BASE", "OPENAI_MODEL_NAME"}
    /\ stdout' = Append(stdout, <<"Configuration validated successfully!">>)
    /\ pc' = "create_agents"
    /\ UNCHANGED <<env, twiceState, agents, crew, kickoffs, task, result, testerState,
                   inflight, calls, replies, exception, stderr, file, exit_status>>

\* main, lines 336-345: the credentials are put into os.environ
crew_set_environ ==
    /\ script = "crewai_demo"
    /\ pc = "set_environ"
    /\ environ' = environ \cup {"OPENAI_API_KEY", "OPENAI_API_BASE"}
                          \cup (IF useGroq THEN {"OPENAI_MODEL_NAME"} ELSE {})
    /\ stdout' = Append(stdout, <<"Configuration validated successfully!">>)
    /\ pc' = "create_agents"
    /\ UNCHANGED <<env, twiceState, agents, crew, kickoffs, task, result, testerState,
                   inflight, calls, replies, exception, stderr, file, exit_status>>

\* main, lines 355-368: the four agents are created
crew_create_agents ==
    /\ script = "crewai_demo"
    /\ pc = "create_agents"
    /\ agents' = crew_agents
    /\ stdout' = Append(stdout, <<"All agents created successfully!">>)
    /\ pc' = "create_crew"
    /\ UNCHANGED <<env, twiceState, environ, crew, kickoffs, task, result, testerState,
                   inflight, calls, replies, exception, stderr, file, exit_status>>

\* main, lines 371-399: the four tasks are created and the Crew is formed
crew_create_crew ==
    /\ script = "crewai_demo"
    /\ pc = "create_crew"
    /\ crew' = crew_tasks
    /\ stdout' = Append(stdout, <<"Starting Crew Execution">>)
    /\ pc' = "kickoff"
    /\ UNCHANGED <<env, twiceState, environ, agents, kickoffs, task, result, testerState,
                   inflight, calls, replies, exception, stderr, file, exit_status>>

\* main, line 402: crew.kickoff is entered, inside the try block
crew_kickoff ==
    /\ script = "crewai_demo"
    /\ pc = "kickoff"
    /\ kickoffs' = kickoffs + 1
    /\ task' = 1
    /\ pc' = "task_call"
    /\ UNCHANGED <<env, twiceState, environ, agents, crew, result, testerState, inflight,
                   calls, replies, exception, stdout, stderr, file, exit_status>>

\* the sequential process: the crew hands its next task to the backend
crew_task_call ==
    /\ script = "crewai_demo"
    /\ pc = "task_call"
    /\ inflight' = Append(inflight, [phase |-> crew[task], reads |-> {}])
    /\ calls' = Append(calls, [phase |-> crew[task], reads |-> {}])
    /\ pc' = "task_wait"
    /\ UNCHANGED <<env, twiceState, crewState, testerState, replies, exception, stdout,
                   stderr, file, exit_status>>

\* the backend answers: the next task starts, or kickoff returns the output
\* of the last task
crew_task_return ==
    /\ script = "crewai_demo"
    /\ pc = "task_wait"
    /\ inflight # <<>>
    /\ \E text \in Texts :
          /\ replies' = Append(replies, <<"return", Head(inflight).phase, text>>)
          /\ IF task < Len(crew)
             THEN /\ task' = task + 1
                  /\ pc' = "task_call"
                  /\ UNCHANGED <<result, stdout>>
             ELSE /\ task' = 0
                  /\ result' = <<text>>
                  /\ stdout' = Append(stdout, <<"Crew Execution Completed Successfully!", text>>)
                  /\ pc' = "write_report"
    /\ inflight' = Tail(inflight)
    /\ UNCHANGED <<env, twiceState, environ, agents, crew, kickoffs, testerState, calls,
                   exception, stderr, file, exit_status>>

\* the backend call of a task fails: kickoff raises
crew_task_raise ==
    /\ script = "crewai_demo"
    /\ pc = "task_wait"
    /\ inflight # <<>>
    /\ \E err \in BackendErrors :
          /\ replies' = Append(replies, <<"raise", Head(inflight).phase, err>>)
          /\ Raise(Exc(err, <<"main", "kickoff">>), TRUE)
    /\ inflight' = Tail(inflight)
    /\ UNCHANGED <<env, twiceState, crewState, testerState, calls, stdout, file>>

\* main, lines 421-452: the report file is written
crew_write_report ==
    /\ script = "crewai_demo"
    /\ pc = "write_report"
    /\ IF ~diskOk
       THEN /\ Raise(Exc("OSError", <<"main">>), TRUE)
            /\ UNCHANGED <<file, stdout>>
       ELSE /\ file' = << <<"CrewAI Multi-Agent Startup Analysis System">>,
                          <<"FINAL STARTUP ANALYSIS REPORT", Format(Head(result))>> >>
            /\ stdout' = Append(stdout, <<"Output saved">>)
            /\ pc' = "exited"
            /\ exit_status' = <<0>>
            /\ UNCHANGED <<exception, stderr>>
    /\ UNCHANGED <<env, twiceState, crewState, testerState, inflight, calls, replies>>

\* crew_except_handler as it would be under `except Exception: pass`
crew_except_handler_silent ==
    /\ script = "crewai_demo"
    /\ pc = "except"
    /\ pc' = "exited"
    /\ exit_status' = <<0>>
    /\ UNCHANGED <<env, twiceState, crewState, testerState, inflight, calls, replies,
                   exception, file, stdout, stderr>>

\* main, lines 454-463: the handler prints the error and the traceback;
\* main returns and the process ends
crew_except_handler ==
    /\ script = "crewai_demo"
    /\ pc = "except"
    /\ stdout' = Append(stdout, <<"Error during crew execution", exception.type>>)
    /\ stderr' = Append(stderr, <<exception.type>> \o exception.frames)
    /\ pc' = "exited"
    /\ exit_status' = <<0>>
    /\ UNCHANGED <<env, twiceState, crewState, testerState, inflight, calls, replies,
                   exception, file>>

---------------------------------------------------------------------------
(* The specification.                                                      *)

\* a process of one of the scripts at its start
ProcessStart ==
    /\ script \in {"scenario_tester", "crewai_demo"}
    /\ argv \in {<<>>} \cup {<<l>> : l \in Lines}
    /\ stdin \in {<<>>} \cup {<<l>> : l \in Lines}
    /\ configValid \in BOOLEAN
    /\ diskOk \in BOOLEAN
    /\ useGroq \in BOOLEAN
    /\ deterministic \in BOOLEAN
    \* inputs a script never reads are left at one value
    /\ argv # <<>> => stdin = <<>>
    /\ script = "scenario_tester" => ~useGroq
    /\ script = "crewai_demo" => argv = <<>> /\ stdin = <<>>
    /\ pc = "start"
    /\ phase = 0
    /\ scenario_type = <<>>
    /\ workflow = "unbound"
    /\ outputs = <<>>
    /\ inflight = <<>>
    /\ response = <<>>
    /\ calls = <<>>
    /\ replies = <<>>
    /\ exception = NoException
    /\ stdout = <<>>
    /\ stderr = <<>>
    /\ file = <<>>
    /\ environ = {}
    /\ agents = <<>>
    /\ crew = <<>>
    /\ kickoffs = 0
    /\ task = 0
    /\ result = <<>>
    /\ exit_status = <<>>
    /\ memo = {}
    /\ prior = <<>>
    /\ runs = 1

Init == ProcessStart /\ ~deterministic

Next ==
    \/ read_scenario
    \/ validate_scenario
    \/ ScenarioWorkflow_init
    \/ run
    \/ phase_enter
    \/ phase_call
    \/ backend_return
    \/ backend_raise
    \/ phase_store
    \/ print_summary_open
    \/ print_summary_write
    \/ report_success
    \/ except_handler
    \/ crew_validate
    \/ crew_set_environ
    \/ crew_create_agents
    \/ crew_create_crew
    \/ crew_kickoff
    \/ crew_task_call
    \/ crew_task_return
    \/ crew_task_raise
    \/ crew_write_report
    \/ crew_except_handler

Spec == Init /\ [][Next]_vars

\* the scenario tester is started again, with the same command line, input
\* and configuration, once its first run has ended
run_again ==
    /\ script = "scenario_tester"
    /\ pc = "exited"
    /\ runs = 1
    /\ runs' = 2
    /\ prior' = outputs
    /\ pc' = "start"
    /\ phase' = 0
    /\ scenario_type' = <<>>
    /\ workflow' = "unbound"
    /\ outputs' = <<>>
    /\ inflight' = <<>>
    /\ response' = <<>>
    /\ calls' = <<>>
    /\ replies' = <<>>
    /\ exception' = NoException
    /\ stdout' = <<>>
    /\ stderr' = <<>>
    /\ exit_status' = <<>>
    /\ UNCHANGED <<env, memo, crewState, file>>

InitTwice == ProcessStart /\ deterministic /\ script = "scenario_tester"

NextTwice ==
    \/ read_scenario
    \/ validate_scenario
    \/ ScenarioWorkflow_init
    \/ run
    \/ phase_enter
    \/ phase_call
    \/ backend_return
    \/ backend_raise
    \/ phase_store
    \/ print_summary_open
    \/ print_summary_write
    \/ report_success
    \/ except_handler
    \/ run_again

\* the scenario tester run twice against a deterministic backend
SpecTwice == InitTwice /\ [][NextTwice]_vars

\* the one thread of a process runs until the process ends, and every backend
\* call in flight is eventually answered or fails
FairSpec == Spec /\ WF_vars(Next)

---------------------------------------------------------------------------
(* Vocabulary of the properties.                                           *)

Tester == script = "scenario_tester"

Ended == exit_status # <<>>

Range(q) == {q[i] : i \in 1..Len(q)}

\* a call succeeded when the backend returned a response with a choice in it
OkReply(r) == r[1] = "return" /\ Len(r) = 3

\* a call failed when create raised or the response held no choice
FailedReply(r) == ~OkReply(r)

\* the position of the phase function fn in run()
StageIndex(fn) == CHOOSE k \in 1..Len(phases) : phases[k] = fn

\* the names of the stages before the k-th
Earlier(k) == {phases[j] : j \in 1..(k - 1)}

\* the backend call of some stage has failed; FailedStage is the 1-indexed
\* position in the run of the call that failed
BackendFailed == Tester /\ \E i \in 1..Len(replies) : FailedReply(replies[i])

FailedStage == CHOOSE i \in 1..Len(replies) : FailedReply(replies[i])

\* the phase function is past its store: between phases, or the run is over
RunOver == pc \in {"print_summary", "print_summary_write", "success", "except", "exited"}

SuccessReported == <<"Scenario completed successfully!">> \in Range(stdout)

ErrorReported == \E e \in Range(stdout) : e[1] = "Error during workflow execution"

\* the last phase banner printed
LastBanner ==
    LET idx == {i \in 1..Len(stdout) : stdout[i][1] = "PHASE"}
    IN  IF idx = {} THEN <<>> ELSE stdout[CHOOSE i \in idx : \A j \in idx : j <= i]

---------------------------------------------------------------------------
(* Properties.                                                             *)

\* C1: when all four backend calls of a run succeeded, self.outputs holds,
\* once run() is past the last store, exactly four entries keyed research,
\* analysis, blueprint, review, in the order in which the stages issued
\* their calls.
C1_FourEntriesInOrder ==
    (Tester /\ RunOver /\ Len(replies) = 4 /\ \A i \in 1..4 : OkReply(replies[i]))
        => /\ Len(outputs) = 4
           /\ DictKeys(outputs) = <<"research", "analysis", "blueprint", "review">>
           /\ DictKeys(outputs) = [i \in 1..4 |-> calls[i].phase]

C1_Witness ==
    /\ Tester /\ Ended /\ SuccessReported
    /\ Len(replies) = 4 /\ \A i \in 1..4 : OkReply(replies[i])
    /\ Len(outputs) = 4

\* C2: when the backend call of stage k failed, the run ends with exactly the
\* k-1 entries of the stages before k in self.outputs, with the error report
\* printed and the traceback naming the phase function of stage k, whose
\* banner is the last one printed; success is never reported.
C2_AbortedAtStageK ==
    (BackendFailed /\ Ended)
        => LET k == FailedStage
           IN  /\ DictKeys(outputs) = SubSeq(phases, 1, k - 1)
               /\ ErrorReported
               /\ stderr # <<>>
               /\ phase_function(phases[k]) \in Range(stderr[Len(stderr)])
               /\ LastBanner = <<"PHASE", phases[k]>>
               /\ ~SuccessReported

C2_Witness ==
    /\ BackendFailed /\ Ended /\ FailedStage = 3 /\ Len(outputs) = 2 /\ ErrorReported

\* C3: once the backend call of stage i failed, that call is the last call
\* ever issued, every stage issued at most one call, and the outputs recorded
\* for the stages before i stay what the backend returned for them.
C3_AbortImmediately ==
    BackendFailed
        => LET i == FailedStage
           IN  /\ i = Len(replies)
               /\ Len(calls) = i
               /\ inflight = <<>>
               /\ \A a, b \in 1..Len(calls) : calls[a].phase = calls[b].phase => a = b
               /\ \A c \in Range(calls) : StageIndex(c.phase) <= i
               /\ Len(outputs) = i - 1
               /\ \A j \in 1..(i - 1) : outputs[j] = <<phases[j], replies[j][3]>>
               /\ pc \in {"phase_store", "except", "exited"}

C3_Witness ==
    /\ BackendFailed /\ Ended /\ calls[Len(calls)].phase = "blueprint"
    /\ DictKeys(outputs) = <<"research", "analysis">>

\* C4: when a backend call failed, main is left at the end with workflow
\* bound to the object whose outputs are the outputs of the stages completed
\* before the failure, each of which was printed, and the traceback printed
\* by the handler names the phase function that failed.
C4_FailureSurfaced ==
    (BackendFailed /\ Ended)
        => LET k == FailedStage
           IN  /\ workflow = "bound"
               /\ \A j \in 1..(k - 1) :
                     /\ HasKey(outputs, phases[j])
                     /\ DictGet(outputs, phases[j]) = replies[j][3]
                     /\ <<"Output", phases[j], Format(replies[j][3])>> \in Range(stdout)
               /\ \A key \in Range(DictKeys(outputs)) : key \in Earlier(k)
               /\ exception.frames[3] = phase_function(phases[k])
               /\ stderr = << <<exception.type>> \o exception.frames >>

C4_Witness ==
    /\ BackendFailed /\ Ended /\ FailedStage = 4 /\ Len(outputs) = 3
    /\ exception.type = "APIStatusError"

\* C5: in every state in which a phase function is executing, the outputs of
\* all the stages before it are in self.outputs.
C5_PreviousRecorded ==
    (Tester /\ phase >= 1 /\ pc \in {"phase_enter", "phase_call", "phase_wait", "phase_store"})
        => \A j \in 1..(phase - 1) : HasKey(outputs, phases[j])

C5_Witness ==
    /\ Tester /\ phase = 4 /\ pc = "phase_wait" /\ Len(outputs) = 3

\* C6: every backend call was issued with a user message built from keys of
\* strictly earlier stages only, and no phase function ever failed looking
\* up a key that is not in self.outputs.
C6_ReadsOnlyEarlier ==
    Tester
        => /\ \A c \in Range(calls) :
                /\ c.reads \subseteq Earlier(StageIndex(c.phase))
                /\ \A i \in 1..Len(c.user) :
                      c.user[i][1] = "outputs" => c.user[i][2] \in Earlier(StageIndex(c.phase))
           /\ exception.type # "KeyError"

C6_Witness ==
    /\ Tester /\ Len(calls) = 4 /\ calls[4].reads = {"blueprint"}

\* C7: at most one backend call is in flight, the calls issued are the
\* stages' calls in the order research, analysis, blueprint, review, one
\* each, and a run that reports success issued exactly four.
C7_OneCallPerStage ==
    Tester
        => /\ Len(inflight) <= 1
           /\ Len(calls) <= 4
           /\ \A i \in 1..Len(calls) :
                 calls[i].phase = <<"research", "analysis", "blueprint", "review">>[i]
           /\ SuccessReported => Len(calls) = 4
           /\ RunOver /\ ~BackendFailed /\ exception.type = "none" => Len(calls) = 4

C7_Witness ==
    /\ Tester /\ SuccessReported /\ Len(calls) = 4 /\ inflight = <<>>

\* C8: the value stored under a stage's name is the content returned for
\* that stage's own call; when the backend answered every call with "OUT:"
\* and the stage name, the context is research, analysis, blueprint, review
\* mapped to OUT:research, OUT:analysis, OUT:blueprint, OUT:review in order.
C8_StoresReturnedText ==
    Tester
        => /\ \A i \in 1..Len(replies) :
                 (OkReply(replies[i]) /\ (i < Len(replies) \/ pc # "phase_store"))
                     => /\ i <= Len(outputs)
                        /\ outputs[i] = <<replies[i][2], replies[i][3]>>
           /\ (RunOver /\ replies = << <<"return", "research", "OUT:research">>,
                                       <<"return", "analysis", "OUT:analysis">>,
                                       <<"return", "blueprint", "OUT:blueprint">>,
                                       <<"return", "review", "OUT:review">> >>)
                 => outputs = << <<"research", "OUT:research">>,
                                 <<"analysis", "OUT:analysis">>,
                                 <<"blueprint", "OUT:blueprint">>,
                                 <<"review", "OUT:review">> >>

C8_Witness ==
    /\ Tester /\ Ended
    /\ outputs = << <<"research", "OUT:research">>, <<"analysis", "OUT:analysis">>,
                    <<"blueprint", "OUT:blueprint">>, <<"review", "OUT:review">> >>

\* C9: once main has read a scenario identifier that is not conference,
\* marketing, research_paper or software, the only step left is the exit
\* with status 1: no ScenarioWorkflow is constructed and no backend call is
\* issued.
C9_UnknownScenarioExits ==
    (Tester /\ pc # "start"
            /\ scenario_type \notin {<<"conference">>, <<"marketing">>,
                                     <<"research_paper">>, <<"software">>})
        => /\ pc \in {"validate", "exited"}
           /\ workflow = "unbound"
           /\ calls = <<>>
           /\ Ended => exit_status = <<1>>

C9_Witness ==
    /\ Tester /\ Ended /\ scenario_type = <<"bogus">> /\ exit_status = <<1>>
    /\ <<"Invalid scenario">> \in Range(stdout)

\* the configuration check has been made and has failed
ConfigCheckFailed ==
    /\ ~configValid
    /\ \/ Tester /\ scenario_type \in valid_scenarios
                 /\ pc \notin {"start", "validate", "construct"}
       \/ script = "crewai_demo" /\ pc # "start"

\* C10: once the configuration check has failed the process has ended with
\* status 1, the failure is printed, no handler of main ran, no stage or task
\* started and no backend call was issued.
C10_ConfigFailureFatal ==
    /\ ConfigCheckFailed
          => /\ pc = "exited"
             /\ exit_status = <<1>>
             /\ \E e \in Range(stdout) :
                   e \in {<<"ERROR: Configuration validation failed!">>,
                          <<"Configuration validation failed">>}
             /\ \A e \in Range(stdout) :
                   e[1] \notin {"Error during workflow execution", "Error during crew execution"}
             /\ exception.type = "SystemExit"
    /\ ~configValid => calls = <<>> /\ phase = 0 /\ task = 0 /\ kickoffs = 0

C10_Witness ==
    /\ Tester /\ ~configValid /\ Ended /\ scenario_type = <<"software">>
    /\ exception.frames = <<"main", "__init__">>

\* the run has started: __init__ returned and main went on to run()
RunStarted == Tester /\ workflow = "bound"

\* C11: every run that started ends with exactly one of the success report
\* and the error report; the success report is printed only when all four
\* stage outputs are recorded, and never next to an error report.
C11_NoPartialSuccess ==
    /\ (RunStarted /\ Ended)
          => /\ SuccessReported \/ ErrorReported
             /\ Len(outputs) = 4 \/ ErrorReported
    /\ (Tester /\ SuccessReported)
          => /\ Len(outputs) = 4
             /\ DictKeys(outputs) = <<"research", "analysis", "blueprint", "review">>
             /\ ~ErrorReported
             /\ exception.type = "none"

C11_Witness ==
    /\ RunStarted /\ Ended /\ ErrorReported /\ Len(outputs) = 2 /\ ~SuccessReported

\* some backend call of the run has failed, in either script
CallFailed == \E i \in 1..Len(replies) : FailedReply(replies[i])

\* the scenario identifier read by main is not a scenario
InvalidScenario == Tester /\ pc \notin {"start", "validate"} /\ scenario_type \notin scenarios

\* C12: a process that ended after a configuration error, an invalid
\* scenario identifier or a failed backend call has printed the report of
\* that error: the configuration message, the invalid-scenario message, or
\* the handler's message with the exception and its traceback.
C12_ErrorsReported ==
    Ended
        => /\ ConfigCheckFailed
                 => \E e \in Range(stdout) :
                       e \in {<<"ERROR: Configuration validation failed!">>,
                              <<"Configuration validation failed">>}
           /\ (InvalidScenario /\ exception.type = "SystemExit")
                 => <<"Invalid scenario">> \in Range(stdout)
           /\ CallFailed
                 => /\ stdout[Len(stdout)] \in
                          {<<"Error during workflow execution", exception.type>>,
                           <<"Error during crew execution", exception.type>>}
                    /\ stderr = << <<exception.type>> \o exception.frames >>
                    /\ exception.type \in BackendErrors \cup {"IndexError"}

C12_Witness ==
    /\ script = "crewai_demo" /\ Ended /\ CallFailed
    /\ <<"Error during crew execution", "APIConnectionError">> \in Range(stdout)

\* print_summary is past its loop, or was stopped in it
ReportClosed == pc \in {"success", "except", "exited"}

\* no report file exists in a run in which a backend call failed
C13_NoReportAfterFailure == (Tester /\ CallFailed) => file = <<>>

\* a report file exists only once all four stage outputs are recorded
C13_ReportNeedsAllStages == (Tester /\ file # <<>>) => Len(outputs) = 4

\* C13: the report file is written only when all stages completed, never in
\* a run in which a backend call failed, and once written it holds, after
\* the header, one section per stage in the order research, analysis,
\* blueprint, review, each with that stage's recorded output.
C13_ReportOnlyOnSuccess ==
    /\ C13_NoReportAfterFailure
    /\ C13_ReportNeedsAllStages
    /\ (Tester /\ file # <<>> /\ ReportClosed)
          => /\ Len(file) = 9
             /\ \A i \in 1..4 :
                   LET name == <<"research", "analysis", "blueprint", "review">>[i]
                   IN  /\ file[2 * i] = <<"PHASE", name>>
                       /\ HasKey(outputs, name)
                       /\ file[2 * i + 1] = <<"TEXT", DictGet(outputs, name)>>

\* C14: self.outputs is append-only: no step removes an entry or changes the
\* value or the position of an entry already recorded, and a step that
\* changes self.outputs is the store of the phase function then executing,
\* which adds the entry of that stage and nothing else.
C14_AppendOnly ==
    [][Tester =>
          /\ Len(outputs') >= Len(outputs)
          /\ \A i \in 1..Len(outputs) : outputs'[i] = outputs[i]
          /\ outputs' # outputs
                => /\ pc = "phase_store"
                   /\ Len(outputs') = Len(outputs) + 1
                   /\ outputs'[Len(outputs')][1] = <<"research", "analysis", "blueprint", "review">>[phase]
       ]_vars

C14_Witness ==
    /\ Tester /\ pc = "phase_enter" /\ phase = 4
    /\ DictKeys(outputs) = <<"research", "analysis", "blueprint">>

\* C15: the stage index only moves from i to i+1, up to 4, and leaves 4 only
\* with all four outputs recorded; a stage that is entered has not run
\* before; after the handler is reached nothing is left but the exit with
\* the error report, and an ended process takes no step; and, every backend
\* call being answered or failing, a run that started ends with the success
\* report or the error report.
C15_Lifecycle ==
    /\ [][Tester =>
            /\ phase' # phase
                  => \/ phase' = phase + 1 /\ phase' <= 4 /\ pc' = "phase_enter"
                     \/ phase = 4 /\ phase' = 0 /\ Len(outputs') = 4 /\ pc' = "print_summary"
            /\ (pc' = "phase_enter" /\ pc # "phase_enter")
                  => /\ phases[phase'] = <<"research", "analysis", "blueprint", "review">>[phase']
                     /\ ~HasKey(outputs, phases[phase'])
                     /\ \A c \in Range(calls) : c.phase # phases[phase']
            /\ pc = "except" => pc' = "exited" /\ outputs' = outputs /\ phase' = phase
            /\ pc # "exited"
         ]_vars
    /\ (Tester /\ pc = "run") ~> (Ended /\ (SuccessReported \/ ErrorReported))

C15_Witness ==
    /\ RunStarted /\ Ended /\ phase = 3 /\ ErrorReported
    /\ DictKeys(outputs) = <<"research", "analysis">>

\* C16: against a backend that answers equal messages equally, the second
\* run of the scenario tester with the same command line, input and
\* configuration ends with self.outputs equal to that of the first run: the
\* same keys, in the same order, with the same values.
C16_Idempotent ==
    (Tester /\ runs = 2 /\ Ended) => outputs = prior

C16_Witness ==
    /\ Tester /\ runs = 2 /\ Ended /\ SuccessReported
    /\ Len(prior) = 4 /\ prior[2][2] # prior[3][2]

\* the fields of a user message that were looked up in self.outputs
ContextFields(msg) == {i \in 1..Len(msg) : msg[i][1] = "outputs"}

\* C17: the user message of the research call holds no field taken from
\* self.outputs; that of the k-th call, k = 2..4, holds exactly one, the
\* output recorded for stage k-1 as an f-string shows it, although the
\* outputs of all earlier stages are in self.outputs when it is built.
C17_ReadsOnlyPrevious ==
    Tester
        => \A k \in 1..Len(calls) :
              LET c == calls[k]
                  stages == <<"research", "analysis", "blueprint", "review">>
              IN  /\ c.phase = stages[k]
                  /\ IF k = 1
                     THEN c.reads = {} /\ ContextFields(c.user) = {}
                     ELSE /\ c.reads = {stages[k - 1]}
                          /\ Cardinality(ContextFields(c.user)) = 1
                          /\ \A i \in ContextFields(c.user) :
                                /\ c.user[i][2] = stages[k - 1]
                                /\ c.user[i][3] = Format(DictGet(outputs, stages[k - 1]))
                          /\ \A j \in 1..(k - 1) : HasKey(outputs, stages[j])

C17_Witness ==
    /\ Tester /\ pc = "phase_wait" /\ phase = 3
    /\ calls[3].reads = {"analysis"} /\ HasKey(outputs, "research")
    /\ DictGet(outputs, "analysis") = None

CrewScript == script = "crewai_demo"

\* the messages the CrewAI main prints after kickoff returned
CrewSuccessPrinted ==
    \E e \in Range(stdout) : e[1] \in {"Crew Execution Completed Successfully!", "Output saved"}

\* C18: the Crew holds the four tasks in the order startup discovery,
\* competitive analysis, product pitch, feature analysis and runs them in
\* that order; kickoff is called at most once, and once when the process
\* ends after the crew was formed; the report file exists only after kickoff
\* returned; when a task's call failed there is no report file and no
\* success message, and the process ends with the error report.
C18_CrewSequence ==
    CrewScript
        => LET order == <<"startup_discovery_task", "competitive_analysis_task",
                          "product_pitch_task", "feature_analysis_task">>
           IN  /\ crew \in {<<>>, order}
               /\ kickoffs <= 1
               /\ (Ended /\ crew # <<>>) => kickoffs = 1
               /\ Len(calls) <= 4
               /\ \A i \in 1..Len(calls) : calls[i].phase = order[i]
               /\ file # <<>>
                     => /\ result # <<>>
                        /\ kickoffs = 1
                        /\ Len(replies) = 4
                        /\ ~CallFailed
                        /\ file[2] = <<"FINAL STARTUP ANALYSIS REPORT", replies[4][3]>>
               /\ CallFailed
                     => /\ file = <<>>
                        /\ result = <<>>
                        /\ ~CrewSuccessPrinted
                        /\ Ended => stdout[Len(stdout)] = <<"Error during crew execution", exception.type>>

C18_Witness ==
    /\ CrewScript /\ Ended /\ CallFailed /\ Len(calls) = 3 /\ kickoffs = 1 /\ file = <<>>

\* C19: in the CrewAI script, once validate_config has returned false the
\* process has ended with status 1 having set nothing in os.environ, created
\* no agent and no crew and not called kickoff; agents, crew and kickoff
\* come only after the credentials were set; and OPENAI_MODEL_NAME is set
\* exactly when Config.USE_GROQ is true.
C19_ValidateFirst ==
    CrewScript
        => /\ (~configValid /\ pc # "start")
                 => /\ pc = "exited"
                    /\ exit_status = <<1>>
                    /\ environ = {}
                    /\ agents = <<>>
                    /\ crew = <<>>
                    /\ kickoffs = 0
                    /\ calls = <<>>
           /\ (environ # {} \/ agents # <<>> \/ crew # <<>> \/ kickoffs > 0)
                 => /\ configValid
                    /\ {"OPENAI_API_KEY", "OPENAI_API_BASE"} \subseteq environ
           /\ "OPENAI_MODEL_NAME" \in environ => useGroq
           /\ (configValid /\ pc \notin {"start", "set_environ"})
                 => ("OPENAI_MODEL_NAME" \in environ <=> useGroq)

C19_Witness ==
    /\ CrewScript /\ configValid /\ ~useGroq /\ kickoffs = 1
    /\ environ = {"OPENAI_API_KEY", "OPENAI_API_BASE"}

\* the report could not be written: open or write raised
WriteFailed == exception.type \in {"OSError", "TypeError"}

\* the handler of main printed its message last
HandlerRan ==
    /\ stdout # <<>>
    /\ stdout[Len(stdout)] \in {<<"Error during workflow execution", exception.type>>,
                                <<"Error during crew execution", exception.type>>}

\* C20: a process in which a backend call or the report write failed ends
\* with status 0, after main's handler printed the error and the traceback;
\* a process ended by a failed configuration check or an invalid scenario
\* identifier ends with status 1, and the handler did not run.
C20_FailureCaughtExitZero ==
    Ended
        => /\ (CallFailed \/ WriteFailed)
                 => /\ exit_status = <<0>>
                    /\ HandlerRan
                    /\ stderr = << <<exception.type>> \o exception.frames >>
           /\ (ConfigCheckFailed \/ (InvalidScenario /\ exception.type = "SystemExit"))
                 => /\ exit_status = <<1>>
                    /\ ~HandlerRan
                    /\ stderr = <<>>

C20_Witness ==
    /\ Tester /\ Ended /\ WriteFailed /\ ~CallFailed /\ exit_status = <<0>> /\ HandlerRan

===========================================================================
